---- MODULE Spec2Model ----
(***************************************************************************)
(* Model of src/security.ts: installCertIntoTemporaryKeychain and          *)
(* deleteKeychain, which drive the macOS `security` tool through           *)
(* @actions/exec.  One call runs at a time; every `await exec.exec(...)`   *)
(* is one step whose standard output and exit code are chosen by the       *)
(* external tool.                                                          *)
(***************************************************************************)
EXTENDS Integers, Sequences, FiniteSets, TLC

VARIABLES
    pc,           \* position of the running call ("idle" between calls)
    call,         \* the running call: function name and its arguments
    tempKeychain, \* const tempKeychain (line 33)
    output,       \* let output (line 12), appended to by the stdout listener
    issued,       \* the exec.exec invocations of the running call, in order
    outputs,      \* the core.setOutput invocations of the running call
    result,       \* how the running call's promise settled
    keychains,    \* the keychains that exist in the external facility
    calls         \* number of calls started so far

vars == <<pc, call, tempKeychain, output, issued, outputs, result, keychains, calls>>

----------------------------------------------------------------------------
(* Bounds and input domains *)

MaxCalls == 2

KeychainNames == {"ci", "keychain", "ci.keychain", ".keychain"}
Passwords == {"", "pw"}
P12Paths == {"", "c.p12"}
P12Passwords == {"", "pp"}
Stdouts == {"", "a", "b"}
ExitCodes == {0, 1, 2}

----------------------------------------------------------------------------
(* Values *)

Suffix == ".keychain"

\* const options: ExecOptions with the stdout listener (lines 13-18), or the
\* parameter left undefined by the caller.
Listeners == "listeners"
Undefined == "undefined"

NoCall == [fn |-> "none", keychain |-> "", setupKeychain |-> FALSE,
           keychainPassword |-> "", p12FilePath |-> "", p12Password |-> ""]

Pending == [kind |-> "pending", error |-> ""]
Returned == [kind |-> "returned", error |-> ""]
Thrown(e) == [kind |-> "thrown", error |-> e]

SuffixError == "keychain name should not end in .keychain"
P12FilePathError == "p12FilePath must not be empty"
KeychainPasswordError == "keychainPassword must not be empty"
P12PasswordError == "p12Password must not be empty"

\* The rejection of exec.exec for a non-zero exit code.
ExecError(code) == "The process 'security' failed with exit code " \o ToString(code)

----------------------------------------------------------------------------
(* Pure helpers *)

EndsWithEquals(s, suf) == s = suf

\* String.prototype.endsWith
EndsWith(s, suf) ==
    /\ Len(s) >= Len(suf)
    /\ SubSeq(s, Len(s) - Len(suf) + 1, Len(s)) = suf

ValidateInstallNoPasswordCheck(keychain, keychainPassword, p12FilePath, p12Password) ==
    IF EndsWith(keychain, Suffix) THEN SuffixError
    ELSE IF p12FilePath = "" THEN P12FilePathError
    ELSE ""

ValidateInstallP12PasswordChecked(keychain, keychainPassword, p12FilePath, p12Password) ==
    IF EndsWith(keychain, Suffix) THEN SuffixError
    ELSE IF p12FilePath = "" THEN P12FilePathError
    ELSE IF p12Password = "" THEN P12PasswordError
    ELSE IF keychainPassword = "" THEN KeychainPasswordError
    ELSE ""

\* The checks of installCertIntoTemporaryKeychain, in order; "" when all pass.
ValidateInstall(keychain, keychainPassword, p12FilePath, p12Password) ==
    IF EndsWith(keychain, Suffix) THEN SuffixError
    ELSE IF p12FilePath = "" THEN P12FilePathError
    ELSE IF keychainPassword = "" THEN KeychainPasswordError
    ELSE ""

FirstStepAlwaysCreate(setupKeychain) == "createKeychain"

\* if (setupKeychain) { await createKeychain(...) } await unlockKeychain(...)
FirstStep(setupKeychain) ==
    IF setupKeychain THEN "createKeychain" ELSE "unlockKeychain"

CreateArgs(keychain, password) == <<"create-keychain", "-p", password, keychain>>
SetSettingsArgs(keychain) == <<"set-keychain-settings", "-lut", "21600", keychain>>
UnlockArgs(keychain, password) == <<"unlock-keychain", "-p", password, keychain>>
ImportArgs(keychain, p12FilePath, p12Password) ==
    <<"import", p12FilePath, "-k", keychain, "-f", "pkcs12", "-A",
      "-T", "/usr/bin/codesign", "-T", "/usr/bin/security", "-P", p12Password>>
PartitionArgs(keychain, password) ==
    <<"set-key-partition-list", "-S", "apple-tool:,apple:", "-k", password, keychain>>
ListArgs(keychain) == <<"list-keychains", "-d", "user", "-s", keychain, "login.keychain">>

DeleteArgsNoSuffix(keychain) == <<"delete-keychain", keychain>>

DeleteArgs(keychain) == <<"delete-keychain", keychain \o Suffix>>

\* What a command of this module does to the set of existing keychains when
\* the facility reports success: create-keychain adds its target,
\* delete-keychain removes it; every other command leaves the set alone.
SecurityEffect(ks, args, code) ==
    IF code # 0 THEN ks
    ELSE IF args[1] = "create-keychain" THEN ks \cup {args[4]}
    ELSE IF args[1] = "delete-keychain" THEN ks \ {args[2]}
    ELSE ks

----------------------------------------------------------------------------
(* One exec.exec('security', args, options) *)

Invocation(args, text, code) ==
    [args |-> args, stdout |-> text, code |-> code, error |-> IF code = 0 THEN "" ELSE ExecError(code)]

ExecIgnoreReturnCode(args, options, next) ==
    \E text \in Stdouts, code \in ExitCodes :
        /\ issued' = Append(issued, Invocation(args, text, code))
        /\ output' = IF options = Listeners THEN output \o text ELSE output
        /\ keychains' = SecurityEffect(keychains, args, code)
        /\ pc' = next
        /\ result' = IF next = "done" THEN Returned ELSE result

ExecRollback(args, options, next) ==
    \E text \in Stdouts, code \in ExitCodes :
        /\ output' = IF options = Listeners THEN output \o text ELSE output
        /\ IF code = 0
           THEN /\ issued' = Append(issued, Invocation(args, text, code))
                /\ keychains' = SecurityEffect(keychains, args, code)
                /\ pc' = next
                /\ result' = IF next = "done" THEN Returned ELSE result
           ELSE /\ issued' = issued \o <<Invocation(args, text, code),
                                         Invocation(<<"delete-keychain", tempKeychain>>, "", 0)>>
                /\ keychains' = keychains \ {tempKeychain}
                /\ pc' = "done"
                /\ result' = Thrown(ExecError(code))

\* The tool runs; the stdout listener (when options carries it) appends the
\* tool's standard output to `output`; a non-zero exit code rejects the
\* awaited promise, which ends the calling async function with that error.
Exec(args, options, next) ==
    \E text \in Stdouts, code \in ExitCodes :
        /\ issued' = Append(issued, Invocation(args, text, code))
        /\ output' = IF options = Listeners THEN output \o text ELSE output
        /\ keychains' = SecurityEffect(keychains, args, code)
        /\ IF code = 0
           THEN /\ pc' = next
                /\ result' = IF next = "done" THEN Returned ELSE result
           ELSE /\ pc' = "done"
                /\ result' = Thrown(ExecError(code))

----------------------------------------------------------------------------
(* Initial state *)

Init ==
    /\ pc = "idle"
    /\ call = NoCall
    /\ tempKeychain = ""
    /\ output = ""
    /\ issued = <<>>
    /\ outputs = <<>>
    /\ result = Pending
    /\ keychains = {}
    /\ calls = 0

----------------------------------------------------------------------------
(* installCertIntoTemporaryKeychain *)

\* Lines 12-36: the call up to its first await.
installCertIntoTemporaryKeychain ==
    /\ pc = "idle"
    /\ calls < MaxCalls
    /\ \E keychain \in KeychainNames, setupKeychain \in BOOLEAN,
          keychainPassword \in Passwords, p12FilePath \in P12Paths,
          p12Password \in P12Passwords :
        LET err == ValidateInstall(keychain, keychainPassword, p12FilePath, p12Password) IN
        /\ call' = [fn |-> "installCertIntoTemporaryKeychain", keychain |-> keychain,
                    setupKeychain |-> setupKeychain, keychainPassword |-> keychainPassword,
                    p12FilePath |-> p12FilePath, p12Password |-> p12Password]
        /\ IF err # ""
           THEN /\ pc' = "done"
                /\ result' = Thrown(err)
                /\ tempKeychain' = ""
           ELSE /\ pc' = FirstStep(setupKeychain)
                /\ result' = Pending
                /\ tempKeychain' = keychain \o Suffix
    /\ output' = ""
    /\ issued' = <<>>
    /\ outputs' = <<>>
    /\ calls' = calls + 1
    /\ UNCHANGED keychains

createKeychainSkipSettings ==
    /\ pc = "createKeychain"
    /\ Exec(CreateArgs(tempKeychain, call.keychainPassword), Listeners, "unlockKeychain")
    /\ UNCHANGED <<call, tempKeychain, outputs, calls>>

\* createKeychain, first exec (lines 169-170)
createKeychain ==
    /\ pc = "createKeychain"
    /\ Exec(CreateArgs(tempKeychain, call.keychainPassword), Listeners, "setKeychainSettings")
    /\ UNCHANGED <<call, tempKeychain, outputs, calls>>

\* createKeychain, second exec (lines 172-179)
setKeychainSettings ==
    /\ pc = "setKeychainSettings"
    /\ Exec(SetSettingsArgs(tempKeychain), Listeners, "unlockKeychain")
    /\ UNCHANGED <<call, tempKeychain, outputs, calls>>

unlockKeychainPublishing ==
    /\ pc = "unlockKeychain"
    /\ Exec(UnlockArgs(tempKeychain, call.keychainPassword), Listeners, "importPkcs12")
    /\ outputs' = Append(outputs, [name |-> "security-response", value |-> output'])
    /\ UNCHANGED <<call, tempKeychain, calls>>

unlockKeychain ==
    /\ pc = "unlockKeychain"
    /\ Exec(UnlockArgs(tempKeychain, call.keychainPassword), Listeners, "importPkcs12")
    /\ UNCHANGED <<call, tempKeychain, outputs, calls>>

importPkcs12 ==
    /\ pc = "importPkcs12"
    /\ Exec(ImportArgs(tempKeychain, call.p12FilePath, call.p12Password), Listeners,
            "setPartitionList")
    /\ UNCHANGED <<call, tempKeychain, outputs, calls>>

\* Line 39 passes no options: setPartitionList's `options` is undefined.
setPartitionList ==
    /\ pc = "setPartitionList"
    /\ Exec(PartitionArgs(tempKeychain, call.keychainPassword), Undefined, "updateKeychainList")
    /\ UNCHANGED <<call, tempKeychain, outputs, calls>>

\* Lines 40-43: the last exec and, when it succeeds, core.setOutput and return.
updateKeychainList ==
    /\ pc = "updateKeychainList"
    /\ Exec(ListArgs(tempKeychain), Listeners, "done")
    /\ outputs' = IF result'.kind = "returned"
                  THEN Append(outputs, [name |-> "security-response", value |-> output'])
                  ELSE outputs
    /\ UNCHANGED <<call, tempKeychain, calls>>

----------------------------------------------------------------------------
(* deleteKeychain *)

\* Lines 71-78: the call up to its await.
deleteKeychain ==
    /\ pc = "idle"
    /\ calls < MaxCalls
    /\ \E keychain \in KeychainNames :
        /\ call' = [NoCall EXCEPT !.fn = "deleteKeychain", !.keychain = keychain]
        /\ IF EndsWith(keychain, Suffix)
           THEN /\ pc' = "done"
                /\ result' = Thrown(SuffixError)
           ELSE /\ pc' = "execDeleteKeychain"
                /\ result' = Pending
    /\ tempKeychain' = ""
    /\ output' = ""
    /\ issued' = <<>>
    /\ outputs' = <<>>
    /\ calls' = calls + 1
    /\ UNCHANGED keychains

\* Lines 79-83.  The caller's options are not part of this module; the
\* delete call is made without a listener on `output`.
execDeleteKeychain ==
    /\ pc = "execDeleteKeychain"
    /\ Exec(DeleteArgs(call.keychain), Undefined, "done")
    /\ UNCHANGED <<call, tempKeychain, outputs, calls>>

----------------------------------------------------------------------------
\* The settled call is observed by its caller; its locals go away.
Return ==
    /\ pc = "done"
    /\ pc' = "idle"
    /\ call' = NoCall
    /\ tempKeychain' = ""
    /\ output' = ""
    /\ issued' = <<>>
    /\ outputs' = <<>>
    /\ result' = Pending
    /\ UNCHANGED <<keychains, calls>>

Next ==
    \/ installCertIntoTemporaryKeychain
    \/ createKeychain
    \/ setKeychainSettings
    \/ unlockKeychain
    \/ importPkcs12
    \/ setPartitionList
    \/ updateKeychainList
    \/ deleteKeychain
    \/ execDeleteKeychain
    \/ Return

Spec == Init /\ [][Next]_vars

----------------------------------------------------------------------------
(* Vocabulary of the properties *)

IsInstall == call.fn = "installCertIntoTemporaryKeychain"
IsDelete == call.fn = "deleteKeychain"

\* s is some prefix followed by the reserved suffix.
HasReservedSuffix(s) == \E n \in 0..Len(s) : SubSeq(s, 1, n) \o ".keychain" = s

ValidationErrors == {SuffixError, P12FilePathError, KeychainPasswordError, P12PasswordError}
ValidationFailed == pc = "done" /\ result.kind = "thrown" /\ result.error \in ValidationErrors

ValidInstallCall ==
    /\ IsInstall
    /\ ~HasReservedSuffix(call.keychain)
    /\ call.p12FilePath # ""
    /\ call.keychainPassword # ""

Succeeded == pc = "done" /\ result.kind = "returned"
Failed == pc = "done" /\ result.kind = "thrown"

Commands == [i \in 1..Len(issued) |-> issued[i].args[1]]
IsPrefix(s, t) == Len(s) <= Len(t) /\ SubSeq(t, 1, Len(s)) = s
Issues(cmd) == \E i \in 1..Len(issued) : issued[i].args[1] = cmd

\* The keychain a command names.
Target(inv) ==
    CASE inv.args[1] = "import" -> inv.args[4]
      [] inv.args[1] = "list-keychains" -> inv.args[5]
      [] OTHER -> inv.args[Len(inv.args)]

RECURSIVE ConcatStdout(_)
ConcatStdout(seq) == IF seq = <<>> THEN "" ELSE seq[1].stdout \o ConcatStdout(Tail(seq))

SixCommands == <<"create-keychain", "set-keychain-settings", "unlock-keychain", "import",
                 "set-key-partition-list", "list-keychains">>
FourCommands == <<"unlock-keychain", "import", "set-key-partition-list", "list-keychains">>

----------------------------------------------------------------------------
(* Properties *)

\* C1: a call of installCertIntoTemporaryKeychain or deleteKeychain whose
\* keychain name ends with ".keychain" ends in a validation error, whatever the
\* other arguments are, and has issued no command.
C1_SuffixRejected ==
    (pc # "idle" /\ HasReservedSuffix(call.keychain)) =>
        /\ IsInstall \/ IsDelete
        /\ pc = "done"
        /\ result = Thrown(SuffixError)
        /\ issued = <<>>

C1_Witness ==
    /\ IsInstall
    /\ call.keychain = "ci.keychain"
    /\ call.p12FilePath # "" /\ call.keychainPassword # "" /\ call.p12Password # ""
    /\ result = Thrown(SuffixError)
    /\ calls = 2 /\ keychains # {}

\* C2: an install call with an empty p12FilePath or an empty keychainPassword
\* ends in a validation error and has issued no command.
C2_EmptyRejected ==
    (IsInstall /\ (call.p12FilePath = "" \/ call.keychainPassword = "")) =>
        /\ ValidationFailed
        /\ issued = <<>>

C2_Witness ==
    /\ IsInstall
    /\ call.keychain = "ci" /\ call.p12FilePath = "c.p12" /\ call.keychainPassword = ""
    /\ result = Thrown(KeychainPasswordError)
    /\ issued = <<>>

\* C3: in an install call with valid arguments and setupKeychain = TRUE the
\* commands issued so far are always a prefix of create-keychain,
\* set-keychain-settings, unlock-keychain, import, set-key-partition-list,
\* list-keychains, all on the keychain name plus ".keychain"; when the call
\* returns, exactly these six have been issued.
C3_SixInOrder ==
    (ValidInstallCall /\ call.setupKeychain) =>
        /\ IsPrefix(Commands, SixCommands)
        /\ \A i \in 1..Len(issued) : Target(issued[i]) = call.keychain \o ".keychain"
        /\ Succeeded => Commands = SixCommands

C3_Witness ==
    /\ ValidInstallCall /\ call.setupKeychain
    /\ Succeeded
    /\ Len(issued) = 6

\* C4 as stated: an install call with valid arguments and setupKeychain =
\* FALSE that returns has issued exactly five commands, none of them
\* create-keychain or set-keychain-settings.
C4_FiveCommands_Original ==
    (ValidInstallCall /\ ~call.setupKeychain /\ Succeeded) =>
        /\ Len(issued) = 5
        /\ ~Issues("create-keychain")
        /\ ~Issues("set-keychain-settings")

\* C4 (amended): an install call with valid arguments and setupKeychain =
\* FALSE never issues create-keychain or set-keychain-settings; the commands
\* issued so far are a prefix of unlock-keychain, import,
\* set-key-partition-list, list-keychains, and when the call returns exactly
\* these four have been issued.
C4_FourCommands ==
    (ValidInstallCall /\ ~call.setupKeychain) =>
        /\ IsPrefix(Commands, FourCommands)
        /\ ~Issues("create-keychain")
        /\ ~Issues("set-keychain-settings")
        /\ Succeeded => Commands = FourCommands

C4_Witness ==
    /\ ValidInstallCall /\ ~call.setupKeychain
    /\ Succeeded
    /\ Len(issued) = 4

\* C5: in an install call, a command that exited non-zero is the last command
\* issued, the call has ended, and the error it ended with is the one exec
\* reported for that command.
C5_FailureAborts ==
    IsInstall =>
        \A i \in 1..Len(issued) :
            issued[i].code # 0 =>
                /\ i = Len(issued)
                /\ pc = "done"
                /\ result = Thrown(issued[i].error)

C5_Witness ==
    /\ IsInstall /\ call.setupKeychain
    /\ Len(issued) = 1
    /\ issued[1].args[1] = "create-keychain"
    /\ issued[1].code = 2
    /\ result = Thrown(ExecError(2))

\* C6: when an install call returns, the value published as
\* 'security-response' is the concatenation, in order of invocation, of the
\* standard output of every command the call issued.
C6_OutputIsAllStdout ==
    (IsInstall /\ Succeeded) =>
        /\ Len(outputs) = 1
        /\ outputs[1].value = ConcatStdout(issued)

\* C7: a deleteKeychain call whose keychain name does not end with
\* ".keychain" issues at most one command, never list-keychains, and when it
\* has ended it has issued exactly one: delete-keychain on the name plus
\* ".keychain".
C7_DeleteIssuesOne ==
    (IsDelete /\ ~HasReservedSuffix(call.keychain)) =>
        /\ Len(issued) <= 1
        /\ ~Issues("list-keychains")
        /\ pc = "done" =>
               /\ Len(issued) = 1
               /\ issued[1].args = <<"delete-keychain", call.keychain \o ".keychain">>

C7_Witness ==
    /\ IsDelete
    /\ call.keychain = "ci"
    /\ pc = "done"
    /\ Len(issued) = 1
    /\ issued[1].code = 0
    /\ "keychain.keychain" \in keychains

\* C8: an install call never issues delete-keychain; when create-keychain
\* succeeded and a later command failed, the created keychain still exists at
\* the end of the call.
C8_NoRollback ==
    IsInstall =>
        /\ ~Issues("delete-keychain")
        /\ (/\ call.setupKeychain
            /\ Failed
            /\ Len(issued) >= 2
            /\ issued[1].args[1] = "create-keychain"
            /\ issued[1].code = 0)
           => (call.keychain \o ".keychain") \in keychains

C8_Witness ==
    /\ IsInstall /\ call.setupKeychain
    /\ Failed
    /\ Len(issued) = 4
    /\ issued[4].args[1] = "import"
    /\ issued[4].code # 0
    /\ tempKeychain \in keychains

\* C9: an install call whose keychain name lacks the suffix and whose
\* p12FilePath and keychainPassword are non-empty passes validation whether
\* p12Password is empty or not: it is about to issue its first command or has
\* issued one, and every import command it issues carries that p12Password
\* as its last argument.
C9_EmptyP12PasswordAccepted ==
    ValidInstallCall =>
        /\ ~ValidationFailed
        /\ tempKeychain = call.keychain \o ".keychain"
        /\ issued = <<>> => pc \in {"createKeychain", "unlockKeychain"}
        /\ \A i \in 1..Len(issued) :
               issued[i].args[1] = "import" =>
                   /\ Len(issued[i].args) = 13
                   /\ issued[i].args[12] = "-P"
                   /\ issued[i].args[13] = call.p12Password

C9_Witness ==
    /\ ValidInstallCall
    /\ call.p12Password = ""
    /\ Issues("import")
    /\ Succeeded

\* C10: 'security-response' is set at most once in a call, and only when
\* list-keychains, the last command, has exited with zero after every command
\* before it did; a call that ended in an error has set no output.
C10_PublishedOnlyOnSuccess ==
    /\ Len(outputs) <= 1
    /\ outputs # <<>> =>
           /\ IsInstall
           /\ Succeeded
           /\ outputs[1].name = "security-response"
           /\ issued # <<>>
           /\ issued[Len(issued)].args[1] = "list-keychains"
           /\ \A i \in 1..Len(issued) : issued[i].code = 0
    /\ Failed => outputs = <<>>
    /\ (IsInstall /\ Succeeded) => Len(outputs) = 1

C10_Witness ==
    /\ IsInstall
    /\ Failed
    /\ Len(issued) = 3
    /\ output # ""
    /\ outputs = <<>>

====
